---- MODULE Spec2Model ----
\* Verification model of tcpip/network/arp/arp.go: the ARP endpoint
\* (HandlePacket, WritePacket), the link-address lookup built by
\* NewLinkAddressLookup (protocol handler and lookup func), and the intrusive
\* list icmpPacketList that lives in the same file.
EXTENDS Integers, Sequences, FiniteSets, TLC

\* ------------------------------------------------------------------ bounds
\* Protocol addresses are 1..NumAddrs, link addresses 1..NumLinkAddrs.
NumAddrs == 2
NumLinkAddrs == 2
\* Frames whose processing is recorded in one run of Spec.
MaxFrames == 2
\* Invocations of the lookup func in one run; call c owns channel c.
NumCalls == 2
\* Nodes (icmpPacket values) that exist in one run of ListSpec: 1..NumNodes.
NumNodes == 3

\* --------------------------------------------------------- program constants
\* header.ARPRequest / header.ARPReply, compared at arp.go:72 and arp.go:127.
ARPRequest == 1
ARPReply == 2
\* r.LocalLinkAddress of the route the frames arrive on (arp.go:75).
LocalLinkAddress == 1
\* The NIC the endpoint belongs to (endpoint.nicid).
NICID == 1

Addrs == 1..NumAddrs
LinkAddrs == 1..NumLinkAddrs
Calls == 1..NumCalls
\* The protocol addresses the stack owns, all on NIC NICID.
LocalAddrs == {1}
NICs == {0, NICID}

\* An ARP frame as header.ARP reads it: valid is the verdict of IsValid on
\* the frame's fixed fields (hardware/protocol space and sizes); the other
\* fields are the ones the accessors return. The target hardware address is
\* not filled in (0) in a Request and is this host's link address in a Reply.
Frames ==
  {f \in [valid : BOOLEAN, op : {ARPRequest, ARPReply},
          sha : LinkAddrs, spa : Addrs, tha : {0, LocalLinkAddress}, tpa : Addrs] :
     f.tha = IF f.op = ARPRequest THEN 0 ELSE LocalLinkAddress}

NoFrame == [valid |-> FALSE, op |-> 0, sha |-> 0, spa |-> 0, tha |-> 0, tpa |-> 0]

\* The result pair of the lookup func: (link address, error). The empty
\* link address "" is 0.
NoResult == [addr |-> 0, err |-> "none"]

VARIABLES
  hasHandler,   \* endpoint.handler # nil
  cache,        \* the stack's link address cache: <<nic, addr>> -> link addr, 0 = no entry
  wait,         \* the map wait: set of <<channel, address>> pairs
  pc,           \* per lookup call: "idle", "waiting", "timeout", "done"
  callAddr,     \* per lookup call: the address it resolves
  result,       \* per lookup call: what it returned
  writeOutcome, \* outcome of the latest endpoint.WritePacket call
  nframes,      \* frames processed so far
  lastIn,       \* the latest inbound frame, as it arrived
  path,         \* who processed it: "endpoint" (HandlePacket) or "handler"
  linkOut,      \* frames written to linkEP while processing it
  cacheLog,     \* AddLinkAddrCache calls made while processing it
  cacheBefore,  \* the cache as it was before processing it
  lastView,     \* the view of the frame as HandlePacket left it
  waitMu,       \* holder of the mutex waitMu between steps: 0 when it is free
  replied,      \* per call: sha of the first matching Reply handled while it was blocked
  removals      \* per call: times an entry of its channel was deleted from wait

arpVars == <<hasHandler, cache, wait, pc, callAddr, result, writeOutcome,
             nframes, lastIn, path, linkOut, cacheLog, cacheBefore, lastView,
             waitMu, replied, removals>>

VARIABLES
  head,    \* per list: icmpPacketList.head
  tail,    \* per list: icmpPacketList.tail
  next,    \* per node: icmpPacketEntry.next
  prev,    \* per node: icmpPacketEntry.prev
  lastOp   \* the latest list call: its name, arguments and the lists before it

listVars == <<head, tail, next, prev, lastOp>>
vars == <<arpVars, listVars>>

\* --------------------------------------------------- external collaborators
IsValid(f) == f.valid

CheckLocalAddress(addr) == IF addr \in LocalAddrs THEN NICID ELSE 0

AddLinkAddrCache(c, nic, addr, linkAddr) == [c EXCEPT ![<<nic, addr>>] = linkAddr]

\* ------------------------------------------------------------- the endpoint
\* arp.go:74-76: the Reply is built in place in the view of the Request.
ReplyInPlace(f) ==
  [f EXCEPT !.op = ARPReply, !.sha = LocalLinkAddress, !.spa = f.tpa]

\* arp.go:51
WritePacketResult == "panic"

WritePacket ==
  /\ UNCHANGED listVars
  /\ writeOutcome' = WritePacketResult
  /\ UNCHANGED <<hasHandler, cache, wait, pc, callAddr, result, nframes,
                 lastIn, path, linkOut, cacheLog, cacheBefore,
                 lastView, waitMu, replied, removals>>

\* ---------------------------------------------------- the protocol handler
\* arp.go:132-133: the channels of wait whose address is addr.
Matching(w, addr) == {e \in w : e[2] = addr}

\* A send on an unbuffered channel inside select/default goes through only
\* when the receiver is blocked in its own select (arp.go:134-137).
Ready(ch) == pc[ch] = "waiting"

\* arp.go:123: the protocol address the handler learns and notifies for.
HandlerAddr(v) == v.spa

\* A slip at arp.go:124: the target hardware address is read for the sender's.
HandlerLinkAddrTarget(v) == v.tha

\* arp.go:124: the link address the handler learns and delivers.
HandlerLinkAddr(v) == v.sha

\* A slip at arp.go:134-137: a plain send, which blocks until the receiver
\* takes it, so it blocks for good on a waiter that is not receiving.
SendBlocksOnUnready(hit) == \E e \in hit : ~ Ready(e[1])

\* arp.go:134-137: the send is one case of a select with a default case, so
\* it never blocks, whatever the waiters hit are doing.
SendBlocks(hit) == FALSE

\* A slip at arp.go:138: the delete sits inside the send case, so only the
\* entries whose delivery was accepted are removed.
HandlerDeletedAccepted(hit) == {e \in hit : Ready(e[1])}

\* arp.go:138: every entry hit is deleted, after the select, whichever case
\* the select took.
HandlerDeleted(hit) == hit

\* The body of the handler on the view v (arp.go:118-143). On a Reply it
\* takes waitMu, and has released it when it returns; a handler blocked in
\* a send keeps it.
HandlerBody(v) ==
  LET nic == CheckLocalAddress(v.tpa)
      addr == HandlerAddr(v)
      linkAddr == HandlerLinkAddr(v)
      hit == IF v.op = ARPReply THEN Matching(wait, addr) ELSE {}
      got == {e[1] : e \in {x \in hit : Ready(x[1])}}
  IN /\ v.op = ARPReply => waitMu = 0
     /\ waitMu' = IF v.op = ARPReply /\ SendBlocks(hit) THEN -1 ELSE waitMu
     /\ cache' = AddLinkAddrCache(cache, nic, addr, linkAddr)
     /\ wait' = wait \ HandlerDeleted(hit)
     /\ pc' = [c \in Calls |-> IF c \in got THEN "done" ELSE pc[c]]
     /\ result' = [c \in Calls |->
                     IF c \in got THEN [addr |-> linkAddr, err |-> "nil"]
                     ELSE result[c]]
     /\ removals' = [c \in Calls |->
                       IF \E e \in HandlerDeleted(hit) : e[1] = c
                       THEN removals[c] + 1
                       ELSE removals[c]]
     /\ replied' = [c \in Calls |->
                      IF /\ v.op = ARPReply
                         /\ pc[c] = "waiting"
                         /\ callAddr[c] = addr
                         /\ replied[c] = 0
                      THEN linkAddr ELSE replied[c]]

\* The AddLinkAddrCache call the handler makes on the view v (arp.go:125).
HandlerCacheLog(v) ==
  <<<<CheckLocalAddress(v.tpa), HandlerAddr(v), HandlerLinkAddr(v)>>>>

\* The handler installed by SetNetworkProtocolHandler, called on a frame.
ProtocolHandler(f) ==
  /\ UNCHANGED listVars
  /\ HandlerBody(f)
  /\ UNCHANGED <<hasHandler, callAddr, writeOutcome>>

\* arp.go:54-84
HandlePacket(f) ==
  /\ UNCHANGED listVars
  /\ UNCHANGED <<hasHandler, callAddr, writeOutcome>>
  /\ IF ~IsValid(f) \/ CheckLocalAddress(f.tpa) = 0
     THEN UNCHANGED <<cache, wait, pc, result, waitMu, replied, removals>>
     ELSE IF hasHandler
          THEN HandlerBody(IF f.op = ARPRequest THEN ReplyInPlace(f) ELSE f)
          ELSE UNCHANGED <<cache, wait, pc, result, waitMu, replied, removals>>

\* The bytes of the view when HandlePacket returns (arp.go:74-76 write it).
HandlePacketView(f) ==
  IF IsValid(f) /\ CheckLocalAddress(f.tpa) # 0 /\ f.op = ARPRequest
  THEN ReplyInPlace(f)
  ELSE f

\* A slip at arp.go:60-64: the frame is answered whoever owns its target.
HandlePacketOutNoLocalCheck(f) ==
  IF IsValid(f) /\ f.op = ARPRequest
  THEN <<ReplyInPlace(f)>>
  ELSE <<>>

\* A slip at arp.go:72: the frame is answered whatever its operation is.
HandlePacketOutAnyOp(f) ==
  IF IsValid(f) /\ CheckLocalAddress(f.tpa) # 0
  THEN <<ReplyInPlace(f)>>
  ELSE <<>>

\* What HandlePacket writes to linkEP on the frame f (arp.go:72-79).
HandlePacketOut(f) ==
  IF IsValid(f) /\ CheckLocalAddress(f.tpa) # 0 /\ f.op = ARPRequest
  THEN <<ReplyInPlace(f)>>
  ELSE <<>>

\* The AddLinkAddrCache calls made under HandlePacket on the frame f.
HandlePacketCacheLog(f) ==
  IF IsValid(f) /\ CheckLocalAddress(f.tpa) # 0 /\ hasHandler
  THEN HandlerCacheLog(IF f.op = ARPRequest THEN ReplyInPlace(f) ELSE f)
  ELSE <<>>

\* The record of one processed frame: what arrived, who processed it, what
\* went out on the link and which cache upserts were made.
Record(f, who, view, out, log) ==
  /\ nframes < MaxFrames
  /\ nframes' = nframes + 1
  /\ lastIn' = f
  /\ path' = who
  /\ lastView' = view
  /\ linkOut' = out
  /\ cacheLog' = log
  /\ cacheBefore' = cache

traceVars == <<nframes, lastIn, path, linkOut, cacheLog, cacheBefore, lastView>>

\* ------------------------------------------------------------ the lookup func
\* arp.go:147-151: the call makes its channel and blocks; wait is not touched.
LookupRegister(w, ch, addr) == w

\* A slip in the timeout branch: the channel is stored, not deleted.
LookupStore(w, ch) == w \cup {<<ch, 1>>}

\* arp.go:156
LookupDelete(w, ch) == {e \in w : e[1] # ch}

\* arp.go:158
TimeoutResult == [addr |-> 0, err |-> "ErrTimeout"]

\* arp.go:146-151: calls are numbered in the order they are made.
LookupCall(c, addr) ==
  /\ UNCHANGED listVars
  /\ pc[c] = "idle"
  /\ \A d \in Calls : d < c => pc[d] # "idle"
  /\ pc' = [pc EXCEPT ![c] = "waiting"]
  /\ callAddr' = [callAddr EXCEPT ![c] = addr]
  /\ wait' = LookupRegister(wait, c, addr)
  /\ UNCHANGED <<hasHandler, cache, result, writeOutcome, nframes, lastIn,
                 path, linkOut, cacheLog, cacheBefore,
                 lastView, waitMu, replied, removals>>

\* arp.go:154: the timer of call c fires and its select takes that case.
TimerFires(c) ==
  /\ UNCHANGED listVars
  /\ pc[c] = "waiting"
  /\ pc' = [pc EXCEPT ![c] = "timeout"]
  /\ UNCHANGED <<hasHandler, cache, wait, callAddr, result, writeOutcome,
                 nframes, lastIn, path, linkOut, cacheLog, cacheBefore,
                 lastView, waitMu, replied, removals>>

\* A slip in the timeout branch: it cleans up and waits again, never returning.
LookupTimeoutRetry(c) ==
  /\ UNCHANGED listVars
  /\ pc[c] = "timeout"
  /\ waitMu = 0
  /\ waitMu' = 0
  /\ wait' = {e \in wait : e[1] # c}
  /\ pc' = [pc EXCEPT ![c] = "waiting"]
  /\ UNCHANGED <<hasHandler, cache, callAddr, result, writeOutcome, nframes,
                 lastIn, path, linkOut, cacheLog, cacheBefore,
                 lastView, replied, removals>>

\* arp.go:155-158: Lock, delete, Unlock, return.
LookupTimeout(c) ==
  /\ UNCHANGED listVars
  /\ pc[c] = "timeout"
  /\ waitMu = 0
  /\ waitMu' = 0
  /\ wait' = LookupDelete(wait, c)
  /\ removals' = [removals EXCEPT
                    ![c] = IF \E e \in wait : e[1] = c THEN @ + 1 ELSE @]
  /\ result' = [result EXCEPT ![c] = TimeoutResult]
  /\ pc' = [pc EXCEPT ![c] = "done"]
  /\ UNCHANGED <<hasHandler, cache, callAddr, writeOutcome, nframes, lastIn,
                 path, linkOut, cacheLog, cacheBefore, lastView, replied>>

\* ------------------------------------------------------------ icmpPacketList
\* Two lists, the receiver l and the argument m of PushBackList. A nil
\* pointer is 0.
Nodes == 1..NumNodes
Lists == {1, 2}

RECURSIVE Walk(_, _, _)
\* The nodes met from n along the links f, at most fuel of them.
Walk(f, n, fuel) ==
  IF n = 0 \/ fuel = 0 THEN <<>> ELSE <<n>> \o Walk(f, f[n], fuel - 1)

\* for e := l.Front(); e != nil; e = e.Next()
Forward(l) == Walk(next, head[l], NumNodes + 1)

\* for e := l.Back(); e != nil; e = e.Prev()
Backward(l) == Walk(prev, tail[l], NumNodes + 1)

Range(q) == {q[i] : i \in 1..Len(q)}
Members(l) == Range(Forward(l))
InNoList(e) == \A l \in Lists : e \notin Members(l)

\* What a call leaves behind for the claims: the traversals before it.
Called(op, l, m, b, e) ==
  lastOp' = [op |-> op, l |-> l, m |-> m, b |-> b, e |-> e,
             pre |-> [k \in Lists |-> Forward(k)],
             preBack |-> [k \in Lists |-> Backward(k)]]

\* arp.go:185-188
Reset(l) ==
  /\ UNCHANGED arpVars
  /\ head' = [head EXCEPT ![l] = 0]
  /\ tail' = [tail EXCEPT ![l] = 0]
  /\ Called("Reset", l, 0, 0, 0)
  /\ UNCHANGED <<next, prev>>

\* arp.go:206-217
PushFront(l, e) ==
  /\ UNCHANGED arpVars
  /\ InNoList(e)
  /\ next' = [next EXCEPT ![e] = head[l]]
  /\ prev' = IF head[l] # 0
             THEN [prev EXCEPT ![e] = 0, ![head[l]] = e]
             ELSE [prev EXCEPT ![e] = 0]
  /\ tail' = IF head[l] # 0 THEN tail ELSE [tail EXCEPT ![l] = e]
  /\ head' = [head EXCEPT ![l] = e]
  /\ Called("PushFront", l, 0, 0, e)

\* arp.go:220-231
PushBack(l, e) ==
  /\ UNCHANGED arpVars
  /\ InNoList(e)
  /\ prev' = [prev EXCEPT ![e] = tail[l]]
  /\ next' = IF tail[l] # 0
             THEN [next EXCEPT ![e] = 0, ![tail[l]] = e]
             ELSE [next EXCEPT ![e] = 0]
  /\ head' = IF tail[l] # 0 THEN head ELSE [head EXCEPT ![l] = e]
  /\ tail' = [tail EXCEPT ![l] = e]
  /\ Called("PushBack", l, 0, 0, e)

\* A slip in PushBackList: m.head.SetPrev(l.tail) is left out.
PushBackListNoPrev(l, m) ==
  /\ UNCHANGED arpVars
  /\ l # m
  /\ IF head[l] = 0
     THEN /\ head' = [head EXCEPT ![l] = head[m], ![m] = 0]
          /\ tail' = [tail EXCEPT ![l] = tail[m], ![m] = 0]
          /\ UNCHANGED <<next, prev>>
     ELSE IF head[m] # 0
          THEN /\ next' = [next EXCEPT ![tail[l]] = head[m]]
               /\ UNCHANGED prev
               /\ tail' = [tail EXCEPT ![l] = tail[m], ![m] = 0]
               /\ head' = [head EXCEPT ![m] = 0]
          ELSE /\ head' = [head EXCEPT ![m] = 0]
               /\ tail' = [tail EXCEPT ![m] = 0]
               /\ UNCHANGED <<next, prev>>
  /\ Called("PushBackList", l, m, 0, 0)

\* arp.go:234-247, on two distinct lists.
PushBackList(l, m) ==
  /\ UNCHANGED arpVars
  /\ l # m
  /\ IF head[l] = 0
     THEN /\ head' = [head EXCEPT ![l] = head[m], ![m] = 0]
          /\ tail' = [tail EXCEPT ![l] = tail[m], ![m] = 0]
          /\ UNCHANGED <<next, prev>>
     ELSE IF head[m] # 0
          THEN /\ next' = [next EXCEPT ![tail[l]] = head[m]]
               /\ prev' = [prev EXCEPT ![head[m]] = tail[l]]
               /\ tail' = [tail EXCEPT ![l] = tail[m], ![m] = 0]
               /\ head' = [head EXCEPT ![m] = 0]
          ELSE /\ head' = [head EXCEPT ![m] = 0]
               /\ tail' = [tail EXCEPT ![m] = 0]
               /\ UNCHANGED <<next, prev>>
  /\ Called("PushBackList", l, m, 0, 0)

\* A slip in InsertAfter: the branch that moves l.tail is left out.
InsertAfterNoTail(l, b, e) ==
  /\ UNCHANGED arpVars
  /\ b \in Members(l)
  /\ InNoList(e)
  /\ LET a == next[b]
     IN /\ next' = [next EXCEPT ![e] = a, ![b] = e]
        /\ prev' = IF a # 0
                   THEN [prev EXCEPT ![e] = b, ![a] = e]
                   ELSE [prev EXCEPT ![e] = b]
        /\ UNCHANGED <<head, tail>>
  /\ Called("InsertAfter", l, 0, b, e)

\* arp.go:250-261
InsertAfter(l, b, e) ==
  /\ UNCHANGED arpVars
  /\ b \in Members(l)
  /\ InNoList(e)
  /\ LET a == next[b]
     IN /\ next' = [next EXCEPT ![e] = a, ![b] = e]
        /\ prev' = IF a # 0
                   THEN [prev EXCEPT ![e] = b, ![a] = e]
                   ELSE [prev EXCEPT ![e] = b]
        /\ tail' = IF a # 0 THEN tail ELSE [tail EXCEPT ![l] = e]
        /\ UNCHANGED head
  /\ Called("InsertAfter", l, 0, b, e)

\* A slip in InsertBefore: b.SetNext(e) is left out.
InsertBeforeNoNext(l, a, e) ==
  /\ UNCHANGED arpVars
  /\ a \in Members(l)
  /\ InNoList(e)
  /\ LET b == prev[a]
     IN /\ prev' = [prev EXCEPT ![e] = b, ![a] = e]
        /\ next' = [next EXCEPT ![e] = a]
        /\ head' = IF b # 0 THEN head ELSE [head EXCEPT ![l] = e]
        /\ UNCHANGED tail
  /\ Called("InsertBefore", l, 0, a, e)

\* arp.go:264-275
InsertBefore(l, a, e) ==
  /\ UNCHANGED arpVars
  /\ a \in Members(l)
  /\ InNoList(e)
  /\ LET b == prev[a]
     IN /\ prev' = [prev EXCEPT ![e] = b, ![a] = e]
        /\ next' = IF b # 0
                   THEN [next EXCEPT ![e] = a, ![b] = e]
                   ELSE [next EXCEPT ![e] = a]
        /\ head' = IF b # 0 THEN head ELSE [head EXCEPT ![l] = e]
        /\ UNCHANGED tail
  /\ Called("InsertBefore", l, 0, a, e)

\* A slip in Remove: the branch that moves l.tail is left out.
RemoveNoTail(l, e) ==
  /\ UNCHANGED arpVars
  /\ e \in Members(l)
  /\ LET p == prev[e]
         n == next[e]
     IN /\ next' = IF p # 0 THEN [next EXCEPT ![p] = n] ELSE next
        /\ head' = IF p # 0 THEN head ELSE [head EXCEPT ![l] = n]
        /\ prev' = IF n # 0 THEN [prev EXCEPT ![n] = p] ELSE prev
        /\ UNCHANGED tail
  /\ Called("Remove", l, 0, 0, e)

\* A slip in Remove: the links of the removed node are cleared.
RemoveClearing(l, e) ==
  /\ UNCHANGED arpVars
  /\ e \in Members(l)
  /\ LET p == prev[e]
         n == next[e]
     IN /\ next' = IF p # 0 THEN [next EXCEPT ![p] = n, ![e] = 0]
                            ELSE [next EXCEPT ![e] = 0]
        /\ head' = IF p # 0 THEN head ELSE [head EXCEPT ![l] = n]
        /\ prev' = IF n # 0 THEN [prev EXCEPT ![n] = p, ![e] = 0]
                            ELSE [prev EXCEPT ![e] = 0]
        /\ tail' = IF n # 0 THEN tail ELSE [tail EXCEPT ![l] = p]
  /\ Called("Remove", l, 0, 0, e)

\* arp.go:278-293
Remove(l, e) ==
  /\ UNCHANGED arpVars
  /\ e \in Members(l)
  /\ LET p == prev[e]
         n == next[e]
     IN /\ next' = IF p # 0 THEN [next EXCEPT ![p] = n] ELSE next
        /\ head' = IF p # 0 THEN head ELSE [head EXCEPT ![l] = n]
        /\ prev' = IF n # 0 THEN [prev EXCEPT ![n] = p] ELSE prev
        /\ tail' = IF n # 0 THEN tail ELSE [tail EXCEPT ![l] = p]
  /\ Called("Remove", l, 0, 0, e)

\* arp.go:278-293 once more on the node that the latest call removed from l:
\* Remove(e) called a second time, right after the first.
RemoveAgain(l, e) ==
  /\ UNCHANGED arpVars
  /\ lastOp.op = "Remove"
  /\ lastOp.l = l
  /\ lastOp.e = e
  /\ LET p == prev[e]
         n == next[e]
     IN /\ next' = IF p # 0 THEN [next EXCEPT ![p] = n] ELSE next
        /\ head' = IF p # 0 THEN head ELSE [head EXCEPT ![l] = n]
        /\ prev' = IF n # 0 THEN [prev EXCEPT ![n] = p] ELSE prev
        /\ tail' = IF n # 0 THEN tail ELSE [tail EXCEPT ![l] = p]
  /\ Called("RemoveAgain", l, 0, 0, e)

\* ------------------------------------------------------------ specifications
ArpInit ==
  /\ hasHandler \in BOOLEAN
  /\ cache = [k \in NICs \X Addrs |-> 0]
  /\ wait = {}
  /\ pc = [c \in Calls |-> "idle"]
  /\ callAddr = [c \in Calls |-> 0]
  /\ result = [c \in Calls |-> NoResult]
  /\ writeOutcome = "none"
  /\ nframes = 0
  /\ lastIn = NoFrame
  /\ path = "none"
  /\ linkOut = <<>>
  /\ cacheLog = <<>>
  /\ cacheBefore = [k \in NICs \X Addrs |-> 0]
  /\ lastView = NoFrame
  /\ waitMu = 0
  /\ replied = [c \in Calls |-> 0]
  /\ removals = [c \in Calls |-> 0]

\* The zero values: empty lists, nodes with nil links.
ListInit ==
  /\ head = [l \in Lists |-> 0]
  /\ tail = [l \in Lists |-> 0]
  /\ next = [n \in Nodes |-> 0]
  /\ prev = [n \in Nodes |-> 0]
  /\ lastOp = [op |-> "none", l |-> 0, m |-> 0, b |-> 0, e |-> 0,
               pre |-> [k \in Lists |-> <<>>],
               preBack |-> [k \in Lists |-> <<>>]]

Init == ArpInit /\ ListInit

\* The endpoint and the handler on every frame.
Next ==
  \/ \E f \in Frames :
       /\ Record(f, "endpoint", HandlePacketView(f), HandlePacketOut(f),
                 HandlePacketCacheLog(f))
       /\ HandlePacket(f)
  \/ \E f \in Frames :
       /\ Record(f, "handler", f, <<>>, HandlerCacheLog(f))
       /\ ProtocolHandler(f)
  \/ WritePacket

Spec == Init /\ [][Next]_vars

\* The host that owns protocol address a sends from one link address.
LinkOf(a) == ((a - 1) % NumLinkAddrs) + 1

\* The frames of the resolver runs: well-formed Requests and Replies that
\* remote hosts address to this host, each host sending from its own link
\* address.
ResolverFrames ==
  {f \in Frames : /\ f.valid
                  /\ f.tpa \in LocalAddrs
                  /\ f.sha = LinkOf(f.spa)}

\* The lookup is in use once NewLinkAddressLookup has installed the handler.
ResolveInit == Init /\ hasHandler

ResolveNext ==
  \/ \E c \in Calls, a \in Addrs : LookupCall(c, a)
  \/ \E c \in Calls : TimerFires(c)
  \/ \E c \in Calls : LookupTimeout(c)
  \/ \E f \in ResolverFrames : ProtocolHandler(f) /\ UNCHANGED traceVars

ResolveSpec == ResolveInit /\ [][ResolveNext]_vars

\* The handler as a function of the frame and of the registry it finds. The
\* registry is drawn at the start: a call is either not registered, or
\* registered for an address and blocked in its select, past its timer, or
\* already returned.
CallStates ==
  {[pc |-> "idle", addr |-> 0, res |-> NoResult]}
    \cup {[pc |-> p, addr |-> a, res |-> NoResult] :
            p \in {"waiting", "timeout"}, a \in Addrs}
    \cup {[pc |-> "done", addr |-> a, res |-> TimeoutResult] : a \in Addrs}

HandlerInit ==
  /\ ListInit
  /\ hasHandler = TRUE
  /\ cache = [k \in NICs \X Addrs |-> 0]
  /\ writeOutcome = "none"
  /\ nframes = 0
  /\ lastIn = NoFrame
  /\ path = "none"
  /\ linkOut = <<>>
  /\ cacheLog = <<>>
  /\ cacheBefore = [k \in NICs \X Addrs |-> 0]
  /\ lastView = NoFrame
  /\ waitMu = 0
  /\ replied = [c \in Calls |-> 0]
  /\ removals = [c \in Calls |-> 0]
  /\ \E st \in [Calls -> CallStates] :
       /\ pc = [c \in Calls |-> st[c].pc]
       /\ callAddr = [c \in Calls |-> st[c].addr]
       /\ result = [c \in Calls |-> st[c].res]
       /\ wait = {<<c, st[c].addr>> : c \in {d \in Calls : st[d].addr # 0}}

HandlerNext ==
  \/ \E f \in ResolverFrames : ProtocolHandler(f) /\ UNCHANGED traceVars
  \/ \E c \in Calls : TimerFires(c)
  \/ \E c \in Calls : LookupTimeout(c)

HandlerSpec == HandlerInit /\ [][HandlerNext]_vars

\* The timer of every blocked call fires, and a call whose timer fired
\* gets the mutex and returns.
FairResolveSpec ==
  /\ ResolveSpec
  /\ \A c \in Calls : WF_vars(TimerFires(c)) /\ WF_vars(LookupTimeout(c))

\* Any sequence of list calls that respects their preconditions: a pushed
\* or inserted node is in no list, an anchor or removed node is in l.
ListNext ==
  \/ \E l \in Lists : Reset(l)
  \/ \E l \in Lists, e \in Nodes : PushFront(l, e)
  \/ \E l \in Lists, e \in Nodes : PushBack(l, e)
  \/ \E l \in Lists, m \in Lists : PushBackList(l, m)
  \/ \E l \in Lists, b \in Nodes, e \in Nodes : InsertAfter(l, b, e)
  \/ \E l \in Lists, a \in Nodes, e \in Nodes : InsertBefore(l, a, e)
  \/ \E l \in Lists, e \in Nodes : Remove(l, e)

\* The list runs leave the ARP state alone, so they start from one of it.
ListRunInit == Init /\ hasHandler

ListSpec == ListRunInit /\ [][ListNext]_vars

\* The list calls, and Remove repeated on the node just removed.
ListAgainNext ==
  \/ ListNext
  \/ \E l \in Lists, e \in Nodes : RemoveAgain(l, e)

ListAgainSpec == ListRunInit /\ [][ListAgainNext]_vars

\* ------------------------------------------------------------------ claims
\* C1: a well-formed Request for a locally owned address makes HandlePacket
\* write exactly one frame to the link endpoint, a Reply whose sender
\* protocol address is the Request's target protocol address, whose sender
\* hardware address is the route's local link address, whose target protocol
\* address is the Request's sender protocol address and whose target
\* hardware address is the Request's sender hardware address.
C1_ReplySwapsSenderAndTarget ==
  (/\ path = "endpoint"
   /\ IsValid(lastIn)
   /\ lastIn.op = ARPRequest
   /\ CheckLocalAddress(lastIn.tpa) # 0)
  => /\ Len(linkOut) = 1
     /\ linkOut[1].op = ARPReply
     /\ linkOut[1].spa = lastIn.tpa
     /\ linkOut[1].sha = LocalLinkAddress
     /\ linkOut[1].tpa = lastIn.spa
     /\ linkOut[1].tha = lastIn.sha

\* C2: a Reply from address A with hardware address H handled while a
\* resolve(A) call is blocked makes that call return H with no error.
C2_ReplyCompletesResolve ==
  \A c \in Calls :
    (pc[c] = "done" /\ replied[c] # 0)
    => result[c] = [addr |-> replied[c], err |-> "nil"]

\* C3: every blocked resolve call eventually returns, and when no matching
\* Reply was handled while it was blocked it returns the timeout error with
\* the empty link address.
C3_ResolveTimesOut ==
  \A c \in Calls :
    (pc[c] = "waiting")
    ~> (pc[c] = "done" /\ (replied[c] = 0 => result[c] = TimeoutResult))

C3_Witness ==
  \E c \in Calls : pc[c] = "done" /\ replied[c] = 0 /\ result[c] = TimeoutResult

\* C4: once a resolve call has returned the timeout error the registry has
\* no entry of its channel, and when every call made so far has timed out
\* the registry is empty.
C4_NoEntryAfterTimeout ==
  /\ \A c \in Calls :
       (pc[c] = "done" /\ result[c] = TimeoutResult)
       => ~ \E e \in wait : e[1] = c
  /\ (\A c \in Calls : pc[c] = "idle" \/ (pc[c] = "done" /\ result[c] = TimeoutResult))
     => wait = {}

C4_Witness ==
  /\ \A c \in Calls : pc[c] = "done" /\ result[c] = TimeoutResult
  /\ \A c, d \in Calls : c # d => callAddr[c] # callAddr[d]

\* C5: processing a frame that fails IsValid makes no AddLinkAddrCache call
\* and writes nothing to the link endpoint, be it processed by HandlePacket
\* or by the protocol handler.
C5_InvalidFrameHasNoEffect ==
  (path # "none" /\ ~ IsValid(lastIn)) => (linkOut = <<>> /\ cacheLog = <<>>)

\* C6: WritePacket returns the unsupported-operation error; it never panics.
C6_WritePacketReturnsError ==
  writeOutcome \in {"none", "ErrNotSupported"}

\* C7: of two concurrent resolve calls for different addresses each gets its
\* own outcome: the call whose Reply was handled returns that hardware
\* address while the other is still blocked, a call returns an address only
\* from a Reply for its own address, and a blocked call has neither a result
\* nor lost its registry entry because the other returned.
C7_ConcurrentResolvesIndependent ==
  \A c, d \in Calls :
    (c # d /\ pc[c] # "idle" /\ pc[d] # "idle" /\ callAddr[c] # callAddr[d])
    => /\ (pc[c] = "done" /\ replied[c] # 0 /\ pc[d] \in {"waiting", "timeout"})
          => result[c] = [addr |-> LinkOf(callAddr[c]), err |-> "nil"]
       /\ result[d].err = "nil" => result[d].addr = LinkOf(callAddr[d])
       /\ pc[d] \in {"waiting", "timeout"} => result[d] = NoResult

\* C8: a pending request is destroyed exactly once, by whichever of Reply
\* and timeout comes first: a returned call has had its entry deleted from
\* the registry once, has one outcome (the address when the Reply was handled
\* while it was blocked, the timeout error otherwise) and no entry left.
C8_DestroyedExactlyOnce ==
  \A c \in Calls :
    pc[c] = "done"
    => /\ removals[c] = 1
       /\ ~ \E e \in wait : e[1] = c
       /\ \/ replied[c] # 0 /\ result[c].err = "nil" /\ result[c].addr # 0
          \/ replied[c] = 0 /\ result[c] = TimeoutResult
Reverse(q) == [i \in 1..Len(q) |-> q[Len(q) + 1 - i]]

\* The sequence q without the element x.
Without(q, x) == SelectSeq(q, LAMBDA y : y # x)

\* C9: PushBackList(m) on l leaves m empty; when l was not empty, l then
\* holds its former elements followed by the former elements of m, in order
\* from Front() along Next() and in reverse order from Back() along Prev().
C9_PushBackListAppends ==
  lastOp.op = "PushBackList"
  => LET A == lastOp.pre[lastOp.l]
         B == lastOp.pre[lastOp.m]
     IN /\ head[lastOp.m] = 0
        /\ tail[lastOp.m] = 0
        /\ A # <<>> => /\ Forward(lastOp.l) = A \o B
                       /\ Backward(lastOp.l) = Reverse(A \o B)

C9_Witness ==
  /\ lastOp.op = "PushBackList"
  /\ Len(lastOp.pre[lastOp.l]) >= 1
  /\ Len(lastOp.pre[lastOp.m]) >= 2
  /\ Forward(lastOp.l) = lastOp.pre[lastOp.l] \o lastOp.pre[lastOp.m]

\* C10: after Remove(x) of a member x the traversal from Front() meets the
\* other members in their former order and never x; Front() is the former
\* successor of x when x was the head, Back() the former predecessor of x
\* when x was the tail, and both are as before otherwise.
C10_RemoveUnlinks ==
  lastOp.op = "Remove"
  => LET A == lastOp.pre[lastOp.l]
         R == Without(A, lastOp.e)
     IN /\ Forward(lastOp.l) = R
        /\ lastOp.e \notin Range(Forward(lastOp.l))
        /\ head[lastOp.l] = IF R = <<>> THEN 0 ELSE R[1]
        /\ tail[lastOp.l] = IF R = <<>> THEN 0 ELSE R[Len(R)]

C10_Witness ==
  /\ lastOp.op = "Remove"
  /\ Len(lastOp.pre[lastOp.l]) >= 3
  /\ lastOp.e = lastOp.pre[lastOp.l][Len(lastOp.pre[lastOp.l])]
  /\ tail[lastOp.l] = lastOp.pre[lastOp.l][Len(lastOp.pre[lastOp.l]) - 1]
NoDuplicates(q) == \A i, j \in 1..Len(q) : i # j => q[i] # q[j]

\* C11: after every sequence of list calls that respects the preconditions
\* each list is well-formed: head and tail are both nil or both set, the
\* Next() links lead from head through each member once to tail, the Prev()
\* links lead from tail through the same members in reverse to head, and a
\* member has a nil Prev() iff it is the head and a nil Next() iff it is the
\* tail.
C11_ListWellFormed ==
  \A l \in Lists :
    LET F == Forward(l)
    IN /\ (head[l] = 0) <=> (tail[l] = 0)
       /\ Len(F) <= NumNodes
       /\ NoDuplicates(F)
       /\ F # <<>> => (F[1] = head[l] /\ F[Len(F)] = tail[l])
       /\ Backward(l) = Reverse(F)
       /\ \A x \in Range(F) : /\ (prev[x] = 0) <=> (x = head[l])
                              /\ (next[x] = 0) <=> (x = tail[l])

C11_Witness ==
  /\ lastOp.op = "InsertBefore"
  /\ Len(Forward(lastOp.l)) = 3
  /\ lastOp.b # head[lastOp.l]
  /\ lastOp.pre[lastOp.l][1] = lastOp.b

\* The sequence q with e put in right after its element b.
PutAfter(q, b, e) ==
  LET i == CHOOSE k \in 1..Len(q) : q[k] = b
  IN SubSeq(q, 1, i) \o <<e>> \o SubSeq(q, i + 1, Len(q))

\* The sequence q with e put in right before its element a.
PutBefore(q, a, e) ==
  LET i == CHOOSE k \in 1..Len(q) : q[k] = a
  IN SubSeq(q, 1, i - 1) \o <<e>> \o SubSeq(q, i, Len(q))

Last(q) == IF q = <<>> THEN 0 ELSE q[Len(q)]
First(q) == IF q = <<>> THEN 0 ELSE q[1]

\* C19: InsertAfter(b, e) puts e right after the member b and
\* InsertBefore(b, e) puts e right before it, the other members keeping their
\* order; InsertAfter leaves the head alone and moves the tail to e only when
\* b was the tail, InsertBefore leaves the tail alone and moves the head to e
\* only when b was the head.
C19_InsertPlacesNode ==
  LET l == lastOp.l
      A == lastOp.pre[l]
  IN /\ lastOp.op = "InsertAfter"
        => /\ Forward(l) = PutAfter(A, lastOp.b, lastOp.e)
           /\ head[l] = First(A)
           /\ tail[l] = IF Last(A) = lastOp.b THEN lastOp.e ELSE Last(A)
     /\ lastOp.op = "InsertBefore"
        => /\ Forward(l) = PutBefore(A, lastOp.b, lastOp.e)
           /\ tail[l] = Last(A)
           /\ head[l] = IF First(A) = lastOp.b THEN lastOp.e ELSE First(A)

C19_Witness ==
  /\ lastOp.op = "InsertAfter"
  /\ Len(lastOp.pre[lastOp.l]) = 2
  /\ Last(lastOp.pre[lastOp.l]) = lastOp.b
  /\ tail[lastOp.l] = lastOp.e

\* The element after x in the sequence q, 0 when x is its last.
After(q, x) ==
  LET i == CHOOSE k \in 1..Len(q) : q[k] = x
  IN IF i = Len(q) THEN 0 ELSE q[i + 1]

\* The element before x in the sequence q, 0 when x is its first.
Before(q, x) ==
  LET i == CHOOSE k \in 1..Len(q) : q[k] = x
  IN IF i = 1 THEN 0 ELSE q[i - 1]

\* The part of the sequence q after its element x.
Rest(q, x) ==
  LET i == CHOOSE k \in 1..Len(q) : q[k] = x
  IN SubSeq(q, i + 1, Len(q))

\* C20: Remove(e) leaves the links of e as they were: e.Next() and e.Prev()
\* are still its former successor and predecessor, so the loop e = e.Next()
\* goes on over the members that followed e; and a second Remove(e) right
\* after the first changes no head, tail or link.
C20_RemoveKeepsLinks ==
  [][ /\ lastOp'.op = "Remove"
         => LET A == lastOp'.pre[lastOp'.l]
                e == lastOp'.e
            IN /\ next'[e] = After(A, e)
               /\ prev'[e] = Before(A, e)
               /\ Walk(next', next'[e], NumNodes + 1) = Rest(A, e)
      /\ lastOp'.op = "RemoveAgain"
         => UNCHANGED <<head, tail, next, prev>> ]_vars

C20_Witness ==
  /\ lastOp.op = "RemoveAgain"
  /\ Len(lastOp.pre[lastOp.l]) = 2
  /\ next[lastOp.e] = lastOp.pre[lastOp.l][2]
  /\ prev[lastOp.e] = lastOp.pre[lastOp.l][1]
\* C12: a well-formed frame, Request or Reply, with sender protocol address
\* P and sender hardware address H and a local target, handled by an
\* endpoint whose handler is the resolver's, leaves the cache mapping P to H
\* on the receiving interface, also when the frame is a Request that is
\* answered.
C12_SenderLearned ==
  ( /\ path = "endpoint"
    /\ hasHandler
    /\ IsValid(lastIn)
    /\ CheckLocalAddress(lastIn.tpa) # 0 )
  => cache[<<CheckLocalAddress(lastIn.tpa), lastIn.spa>>] = lastIn.sha

\* The view the resolver's handler was called on for the latest frame.
SeenByHandler == IF path = "endpoint" THEN lastView ELSE lastIn

\* The latest frame reached the resolver's handler.
HandlerRan ==
  \/ path = "handler"
  \/ /\ path = "endpoint"
     /\ hasHandler
     /\ IsValid(lastIn)
     /\ CheckLocalAddress(lastIn.tpa) # 0

\* The cache key the handler writes for the view v.
KeyOf(v) == <<CheckLocalAddress(v.tpa), v.spa>>

\* C13: the handler's upsert is idempotent and the last write wins: the
\* cache after a frame is the cache before it with the one entry for
\* (interface, P) set to the frame's sender hardware address, so a frame that
\* repeats the entry changes nothing and a frame with another hardware
\* address replaces it, no other entry being touched.
C13_UpsertLastWriteWins ==
  HandlerRan
  => LET v == SeenByHandler
     IN /\ cache = [cacheBefore EXCEPT ![KeyOf(v)] = v.sha]
        /\ cacheBefore[KeyOf(v)] = v.sha => cache = cacheBefore

C13_Witness ==
  /\ path = "handler"
  /\ nframes = 2
  /\ cacheBefore[KeyOf(lastIn)] \notin {0, lastIn.sha}
  /\ cache[KeyOf(lastIn)] = lastIn.sha

\* C17: HandlePacket on a well-formed frame whose target no interface owns
\* has no effect: nothing is written to the link endpoint, the view is as it
\* arrived and the handler is not called (no upsert, no registry change).
C17_NonLocalTargetDropped ==
  ( /\ path = "endpoint"
    /\ IsValid(lastIn)
    /\ CheckLocalAddress(lastIn.tpa) = 0 )
  => /\ linkOut = <<>>
     /\ lastView = lastIn
     /\ cacheLog = <<>>
     /\ cache = cacheBefore

C17_Witness ==
  /\ path = "endpoint"
  /\ hasHandler
  /\ IsValid(lastIn)
  /\ lastIn.op = ARPRequest
  /\ CheckLocalAddress(lastIn.tpa) = 0
  /\ linkOut = <<>>

\* C18: HandlePacket writes to the link endpoint only to answer a Request: a
\* Reply causes no write and its view is not modified, and no frame causes
\* more than one write.
C18_TransmitsOnlyForRequests ==
  path = "endpoint"
  => /\ Len(linkOut) <= 1
     /\ linkOut # <<>> => lastIn.op = ARPRequest
     /\ lastIn.op = ARPReply => (linkOut = <<>> /\ lastView = lastIn)

C18_Witness ==
  /\ path = "endpoint"
  /\ hasHandler
  /\ IsValid(lastIn)
  /\ lastIn.op = ARPReply
  /\ CheckLocalAddress(lastIn.tpa) # 0
  /\ linkOut = <<>>
  /\ cache[KeyOf(lastIn)] = lastIn.sha
\* C14: from the start of a resolve(A) call to its return the registry holds
\* an entry that maps the call's channel to A.
C14_RegisteredWhileResolving ==
  \A c \in Calls :
    pc[c] \in {"waiting", "timeout"} => <<c, callAddr[c]>> \in wait
\* What the handler does to the registry and the waiters on the frame f.
HandlerRegistryEffect(f) ==
  IF f.op = ARPReply
  THEN /\ wait' = {e \in wait : e[2] # f.spa}
       /\ \A c \in Calls :
            IF <<c, f.spa>> \in wait /\ pc[c] = "waiting"
            THEN pc'[c] = "done" /\ result'[c] = [addr |-> f.sha, err |-> "nil"]
            ELSE pc'[c] = pc[c] /\ result'[c] = result[c]
  ELSE UNCHANGED <<wait, pc, result>>

\* C15: the handler changes the registry only on a Reply: a Reply with
\* sender protocol address A removes exactly the entries registered for A,
\* whether the waiter took the delivery or not, and leaves the others; a
\* frame that is not a Reply leaves the registry as it is and delivers to
\* nobody.
C15_RegistryChangedOnlyByReply ==
  [][\A f \in ResolverFrames : ProtocolHandler(f) => HandlerRegistryEffect(f)]_vars

C15_Witness ==
  \E c, d \in Calls :
    /\ c # d
    /\ removals[c] = 1
    /\ pc[c] = "done"
    /\ result[c].err = "nil"
    /\ removals[d] = 1
    /\ pc[d] = "timeout"
    /\ callAddr[d] = callAddr[c]
    /\ wait = {}

\* C16: the handler never blocks with the registry mutex held: whatever the
\* frame and the registry, waiters past their timer or already returned
\* included, it returns with the mutex released, so a call past its timer
\* can always take the mutex and return.
C16_HandlerNeverBlocks ==
  /\ waitMu = 0
  /\ \A c \in Calls : pc[c] = "timeout" => ENABLED LookupTimeout(c)

C16_Witness ==
  \E c \in Calls :
    /\ pc[c] = "timeout"
    /\ removals[c] = 1
    /\ <<c, callAddr[c]>> \notin wait
    /\ cache[<<NICID, callAddr[c]>>] # 0
    /\ waitMu = 0
    /\ ENABLED LookupTimeout(c)

====
